---- MODULE Spec2Model ----
(***************************************************************************)
(* DatabaseMate AI: the danger policy, the confirmation-gated execution    *)
(* gateway (database_manager.py), the translator adapter and its           *)
(* conversation context (llm_client.py) and the natural-language pipeline  *)
(* (main.py).                                                              *)
(*                                                                         *)
(* Text is a sequence of one-character strings, so that upper(), strip(),  *)
(* split() and the substring tests are computed character by character.    *)
(***************************************************************************)
EXTENDS Integers, Sequences, FiniteSets, TLC

\* ------------------------------------------------------------------------
\* Bounds
\* ------------------------------------------------------------------------
\* number of fragments a statement text handed to the danger policy is built from
MaxFrags == 3

\* ------------------------------------------------------------------------
\* Text helpers (Python str methods, ASCII)
\* ------------------------------------------------------------------------
LowerChars == <<"a","b","c","d","e","f","g","h","i","j","k","l","m",
                "n","o","p","q","r","s","t","u","v","w","x","y","z">>
UpperChars == <<"A","B","C","D","E","F","G","H","I","J","K","L","M",
                "N","O","P","Q","R","S","T","U","V","W","X","Y","Z">>

Whitespace == {" ", "\n", "\t"}

LowerSet == {LowerChars[i] : i \in 1..26}
UpperSet == {UpperChars[i] : i \in 1..26}

\* the upper-case form of each lower-case letter, and the reverse
UpperOf == [c \in LowerSet |-> UpperChars[CHOOSE i \in 1..26 : LowerChars[i] = c]]
LowerOf == [c \in UpperSet |-> LowerChars[CHOOSE i \in 1..26 : UpperChars[i] = c]]

UpperChar(c) == IF c \in LowerSet THEN UpperOf[c] ELSE c

LowerChar(c) == IF c \in UpperSet THEN LowerOf[c] ELSE c

\* str.upper()
Upper(s) == [i \in 1..Len(s) |-> UpperChar(s[i])]

\* str.lower()
Lower(s) == [i \in 1..Len(s) |-> LowerChar(s[i])]

\* the first position from i on that holds no whitespace (Len(s) + 1 if none)
RECURSIVE SkipSpace(_, _)
SkipSpace(s, i) ==
    IF i > Len(s) \/ s[i] \notin Whitespace THEN i ELSE SkipSpace(s, i + 1)

\* the last position up to i that holds no whitespace (0 if none)
RECURSIVE SkipSpaceBack(_, _)
SkipSpaceBack(s, i) ==
    IF i < 1 \/ s[i] \notin Whitespace THEN i ELSE SkipSpaceBack(s, i - 1)

\* the first position from i on that holds whitespace (Len(s) + 1 if none)
RECURSIVE SkipWord(_, _)
SkipWord(s, i) ==
    IF i > Len(s) \/ s[i] \in Whitespace THEN i ELSE SkipWord(s, i + 1)

\* str.strip()
Strip(s) ==
    LET lo == SkipSpace(s, 1)
    IN  IF lo > Len(s) THEN <<>> ELSE SubSeq(s, lo, SkipSpaceBack(s, Len(s)))

\* str.split(): the whitespace-delimited tokens
RECURSIVE SplitFrom(_, _)
SplitFrom(s, i) ==
    LET b == SkipSpace(s, i)
    IN  IF b > Len(s) THEN <<>>
        ELSE LET e == SkipWord(s, b)
             IN  <<SubSeq(s, b, e - 1)>> \o SplitFrom(s, e)

Split(s) == SplitFrom(s, 1)

\* p occurs in s at position i
OccursAt(p, s, i) ==
    /\ i >= 1
    /\ i + Len(p) - 1 <= Len(s)
    /\ \A k \in 1..Len(p) : s[i + k - 1] = p[k]

\* the Python test  p in s
Contains(p, s) == \E i \in 1..(Len(s) + 1) : OccursAt(p, s, i)

\* str.startswith(p)
StartsWith(s, p) == OccursAt(p, s, 1)

\* ------------------------------------------------------------------------
\* Danger policy
\* ------------------------------------------------------------------------
\* DROP TABLE
opDROP_TABLE == <<"D","R","O","P"," ","T","A","B","L","E">>
\* DROP DATABASE
opDROP_DATABASE == <<"D","R","O","P"," ","D","A","T","A","B","A","S","E">>
\* DELETE FROM
opDELETE_FROM == <<"D","E","L","E","T","E"," ","F","R","O","M">>
\* TRUNCATE
opTRUNCATE == <<"T","R","U","N","C","A","T","E">>
\* ALTER TABLE
opALTER_TABLE == <<"A","L","T","E","R"," ","T","A","B","L","E">>
\* WHERE
kwWHERE == <<"W","H","E","R","E">>

dangerous_operations ==
    << [operation |-> opDROP_TABLE,
        warning   |-> "This will permanently delete a table and all its data"],
       [operation |-> opDROP_DATABASE,
        warning   |-> "This will permanently delete the entire database"],
       [operation |-> opDELETE_FROM,
        warning   |-> "This will delete records (potentially all records if no WHERE clause)"],
       [operation |-> opTRUNCATE,
        warning   |-> "This will delete all records from a table"],
       [operation |-> opALTER_TABLE,
        warning   |-> "This will modify table structure"] >>

\* variant: a DELETE FROM with a WHERE ends the scan instead of continuing it
RECURSIVE ScanOperationsStopAtDelete(_, _)
ScanOperationsStopAtDelete(sql_upper, i) ==
    IF i > Len(dangerous_operations)
    THEN [is_dangerous |-> FALSE, warning |-> ""]
    ELSE LET rule == dangerous_operations[i]
         IN  IF Contains(rule.operation, sql_upper)
             THEN IF rule.operation = opDELETE_FROM /\ Contains(kwWHERE, sql_upper)
                  THEN [is_dangerous |-> FALSE, warning |-> ""]
                  ELSE [is_dangerous |-> TRUE, warning |-> rule.warning]
             ELSE ScanOperationsStopAtDelete(sql_upper, i + 1)

\* variant: no exemption for a DELETE FROM with a WHERE
RECURSIVE ScanOperationsNoExemption(_, _)
ScanOperationsNoExemption(sql_upper, i) ==
    IF i > Len(dangerous_operations)
    THEN [is_dangerous |-> FALSE, warning |-> ""]
    ELSE LET rule == dangerous_operations[i]
         IN  IF Contains(rule.operation, sql_upper)
             THEN [is_dangerous |-> TRUE, warning |-> rule.warning]
             ELSE ScanOperationsNoExemption(sql_upper, i + 1)

\* the body of the for loop of is_dangerous_query, from rule i on
RECURSIVE ScanOperations(_, _)
ScanOperations(sql_upper, i) ==
    IF i > Len(dangerous_operations)
    THEN [is_dangerous |-> FALSE, warning |-> ""]
    ELSE LET rule == dangerous_operations[i]
         IN  IF Contains(rule.operation, sql_upper)
             THEN IF rule.operation = opDELETE_FROM /\ Contains(kwWHERE, sql_upper)
                  THEN ScanOperations(sql_upper, i + 1)
                  ELSE [is_dangerous |-> TRUE, warning |-> rule.warning]
             ELSE ScanOperations(sql_upper, i + 1)

is_dangerous_query(sql) == ScanOperations(Strip(Upper(sql)), 1)

\* ------------------------------------------------------------------------
\* The database file and the SQLite engine behind cursor.execute
\* ------------------------------------------------------------------------
\* largest AUTOINCREMENT id the users table hands out
MaxId == 7

\* SELECT * FROM users
stSelectAll == <<"S","E","L","E","C","T"," ","*"," ","F","R","O","M"," ","u","s","e","r","s">>
\* SELECT * FROM users WHERE email='z@z.com'
stSelectZ == <<"S","E","L","E","C","T"," ","*"," ","F","R","O","M"," ","u","s","e","r","s"," ","W","H","E","R","E"," ","e","m","a","i","l","=","'","z","@","z",".","c","o","m","'">>
\* SELECT COUNT(*) FROM users
stCount == <<"S","E","L","E","C","T"," ","C","O","U","N","T","(","*",")"," ","F","R","O","M"," ","u","s","e","r","s">>
\*   select count(*) from users
stCountLower == <<" "," ","s","e","l","e","c","t"," ","c","o","u","n","t","(","*",")"," ","f","r","o","m"," ","u","s","e","r","s">>
\* SELECT * FROM nosuch
stSelectMissing == <<"S","E","L","E","C","T"," ","*"," ","F","R","O","M"," ","n","o","s","u","c","h">>
\* INSERT INTO users (name, email) VALUES ('Zed','z@z.com')
stInsertZ == <<"I","N","S","E","R","T"," ","I","N","T","O"," ","u","s","e","r","s"," ","(","n","a","m","e",","," ","e","m","a","i","l",")"," ","V","A","L","U","E","S"," ","(","'","Z","e","d","'",",","'","z","@","z",".","c","o","m","'",")">>
\* UPDATE users SET name='Zoe' WHERE email='z@z.com'
stUpdateZ == <<"U","P","D","A","T","E"," ","u","s","e","r","s"," ","S","E","T"," ","n","a","m","e","=","'","Z","o","e","'"," ","W","H","E","R","E"," ","e","m","a","i","l","=","'","z","@","z",".","c","o","m","'">>
\* DELETE FROM users WHERE email='z@z.com'
stDeleteZ == <<"D","E","L","E","T","E"," ","F","R","O","M"," ","u","s","e","r","s"," ","W","H","E","R","E"," ","e","m","a","i","l","=","'","z","@","z",".","c","o","m","'">>
\* DELETE FROM users
stDeleteAll == <<"D","E","L","E","T","E"," ","F","R","O","M"," ","u","s","e","r","s">>
\* CREATE TABLE notes (id INTEGER)
stCreateNotes == <<"C","R","E","A","T","E"," ","T","A","B","L","E"," ","n","o","t","e","s"," ","(","i","d"," ","I","N","T","E","G","E","R",")">>
\* DROP TABLE products
stDropProducts == <<"D","R","O","P"," ","T","A","B","L","E"," ","p","r","o","d","u","c","t","s">>
\* ALTER TABLE users ADD COLUMN nick TEXT
stAlterUsers == <<"A","L","T","E","R"," ","T","A","B","L","E"," ","u","s","e","r","s"," ","A","D","D"," ","C","O","L","U","M","N"," ","n","i","c","k"," ","T","E","X","T">>
\* REPLACE INTO users (name, email) VALUES ('Zed','z@z.com')
stReplaceZ == <<"R","E","P","L","A","C","E"," ","I","N","T","O"," ","u","s","e","r","s"," ","(","n","a","m","e",","," ","e","m","a","i","l",")"," ","V","A","L","U","E","S"," ","(","'","Z","e","d","'",",","'","z","@","z",".","c","o","m","'",")">>
\* PRAGMA user_version
stPragma == <<"P","R","A","G","M","A"," ","u","s","e","r","_","v","e","r","s","i","o","n">>
\* TRUNCATE TABLE users
stTruncate == <<"T","R","U","N","C","A","T","E"," ","T","A","B","L","E"," ","u","s","e","r","s">>
\* SELECT
kSELECT == <<"S","E","L","E","C","T">>
\* INSERT
kINSERT == <<"I","N","S","E","R","T">>
\* UPDATE
kUPDATE == <<"U","P","D","A","T","E">>
\* DELETE
kDELETE == <<"D","E","L","E","T","E">>
\* CREATE
kCREATE == <<"C","R","E","A","T","E">>
\* DROP
kDROP == <<"D","R","O","P">>
\* ALTER
kALTER == <<"A","L","T","E","R">>
\* the empty statement
stEmpty == <<>>

\* the statements execute_query is called with
Statements ==
    {stSelectAll, stSelectZ, stCount, stCountLower, stSelectMissing,
     stInsertZ, stUpdateZ, stDeleteZ, stDeleteAll, stCreateNotes,
     stDropProducts, stAlterUsers, stReplaceZ, stPragma, stTruncate, stEmpty}

sample_users ==
    {[id |-> 1, name |-> "Alice Johnson", email |-> "alice@example.com"],
     [id |-> 2, name |-> "Bob Smith",     email |-> "bob@example.com"],
     [id |-> 3, name |-> "Carol Brown",   email |-> "carol@example.com"],
     [id |-> 4, name |-> "David Wilson",  email |-> "david@example.com"],
     [id |-> 5, name |-> "Eva Davis",     email |-> "eva@example.com"]}

sample_products ==
    {[id |-> 1, name |-> "Laptop"],
     [id |-> 2, name |-> "Coffee Mug"],
     [id |-> 3, name |-> "Book: Python Guide"],
     [id |-> 4, name |-> "Wireless Mouse"],
     [id |-> 5, name |-> "Plant Pot"]}

sample_orders ==
    {[id |-> 1, user_id |-> 1, product_id |-> 1],
     [id |-> 2, user_id |-> 2, product_id |-> 2],
     [id |-> 3, user_id |-> 1, product_id |-> 3],
     [id |-> 4, user_id |-> 3, product_id |-> 1],
     [id |-> 5, user_id |-> 4, product_id |-> 4]}

\* the database file init_database leaves behind on a fresh path:
\* rows   the rows of every existing table
\* useq   the AUTOINCREMENT counter of users (sqlite_sequence)
\* nick   whether users has the added column nick
init_database ==
    [rows |-> [t \in {"users", "products", "orders"} |->
                 CASE t = "users"    -> sample_users
                   [] t = "products" -> sample_products
                   [] OTHER          -> sample_orders],
     useq |-> Cardinality(sample_users),
     nick |-> FALSE]

ZEmail == "z@z.com"

\* rows of a set in rowid order
RECURSIVE ById(_)
ById(rs) ==
    IF rs = {} THEN <<>>
    ELSE LET r == CHOOSE x \in rs : \A y \in rs : x.id <= y.id
         IN  <<r>> \o ById(rs \ {r})

UsersColumns(d) == <<"id", "name", "email">> \o (IF d.nick THEN <<"nick">> ELSE <<>>)

\* one sqlite3.Row of users over the current columns
UsersRow(d, r) ==
    [c \in {UsersColumns(d)[i] : i \in 1..Len(UsersColumns(d))} |->
        IF c \in DOMAIN r THEN r[c] ELSE "NULL"]

UsersRows(d, rs) == LET s == ById(rs) IN [i \in 1..Len(s) |-> UsersRow(d, s[i])]

WithUsers(d, rs) == [d EXCEPT !.rows = [@ EXCEPT !["users"] = rs]]

\* what cursor.execute(sql) does on a connection that sees database d:
\* raised/msg   a sqlite3.Error and its message
\* d            the database as the connection's transaction now sees it
\* rows, description, rowcount, lastrowid   the cursor afterwards
\* (lastrowid 0 stands for None)
EngineRaise(d, msg) ==
    [raised |-> TRUE, msg |-> msg, d |-> d, rows |-> <<>>,
     description |-> <<>>, rowcount |-> -1, lastrowid |-> 0]

EngineDone(d, rows, description, rowcount, lastrowid) ==
    [raised |-> FALSE, msg |-> "", d |-> d, rows |-> rows,
     description |-> description, rowcount |-> rowcount, lastrowid |-> lastrowid]

CursorExecute(d, sql, locked) ==
    LET users   == d.rows["users"]
        zrows   == {r \in users : r.email = ZEmail}
        newrow  == [id |-> d.useq + 1, name |-> "Zed", email |-> ZEmail]
        bumped  == [d EXCEPT !.useq = @ + 1]
    IN
    IF locked THEN EngineRaise(d, "database is locked")
    ELSE CASE sql = stSelectAll ->
              EngineDone(d, UsersRows(d, users), UsersColumns(d), -1, 0)
         [] sql = stSelectZ ->
              EngineDone(d, UsersRows(d, zrows), UsersColumns(d), -1, 0)
         [] sql = stCount ->
              EngineDone(d, << ("COUNT(*)" :> Cardinality(users)) >>, <<"COUNT(*)">>, -1, 0)
         [] sql = stCountLower ->
              EngineDone(d, << ("count(*)" :> Cardinality(users)) >>, <<"count(*)">>, -1, 0)
         [] sql = stSelectMissing ->
              EngineRaise(d, "no such table: nosuch")
         [] sql = stInsertZ ->
              IF zrows # {}
              THEN EngineRaise(d, "UNIQUE constraint failed: users.email")
              ELSE EngineDone(WithUsers(bumped, users \cup {newrow}), <<>>, <<>>, 1, newrow.id)
         [] sql = stUpdateZ ->
              EngineDone(WithUsers(d, (users \ zrows) \cup
                                      {[r EXCEPT !.name = "Zoe"] : r \in zrows}),
                         <<>>, <<>>, Cardinality(zrows), 0)
         [] sql = stDeleteZ ->
              EngineDone(WithUsers(d, users \ zrows), <<>>, <<>>, Cardinality(zrows), 0)
         [] sql = stDeleteAll ->
              EngineDone(WithUsers(d, {}), <<>>, <<>>, Cardinality(users), 0)
         [] sql = stCreateNotes ->
              IF "notes" \in DOMAIN d.rows
              THEN EngineRaise(d, "table notes already exists")
              ELSE EngineDone([d EXCEPT !.rows = ("notes" :> {}) @@ @], <<>>, <<>>, -1, 0)
         [] sql = stDropProducts ->
              IF "products" \notin DOMAIN d.rows
              THEN EngineRaise(d, "no such table: products")
              ELSE EngineDone([d EXCEPT !.rows = [t \in DOMAIN @ \ {"products"} |-> @[t]]],
                              <<>>, <<>>, -1, 0)
         [] sql = stAlterUsers ->
              IF d.nick
              THEN EngineRaise(d, "duplicate column name: nick")
              ELSE EngineDone([d EXCEPT !.nick = TRUE], <<>>, <<>>, -1, 0)
         [] sql = stReplaceZ ->
              EngineDone(WithUsers(bumped, (users \ zrows) \cup {newrow}), <<>>, <<>>, 1, newrow.id)
         [] sql = stPragma ->
              EngineDone(d, << [user_version |-> 0] >>, <<"user_version">>, -1, 0)
         [] sql = stEmpty ->
              EngineDone(d, <<>>, <<>>, -1, 0)
         [] OTHER ->
              EngineRaise(d, "syntax error")

\* statements that take a fresh AUTOINCREMENT id
TakesId(sql) == sql \in {stInsertZ, stReplaceZ}

\* ------------------------------------------------------------------------
\* Execution gateway
\* ------------------------------------------------------------------------
\* yes
respYes == <<"y","e","s">>
\* y
respY == <<"y">>
\* YES
ansYES == <<"Y","E","S">>
\* Y
ansYUpper == <<"Y">>
\* no
ansNo == <<"n","o">>
\*  yes
ansYesPadded == <<" ","y","e","s">>
\* the empty answer
ansEmpty == <<>>

\* what the operator types at "Do you want to proceed? (yes/no): "
Answers == {respYes, respY, ansYES, ansYUpper, ansNo, ansYesPadded, ansEmpty}

MutationKinds == {kINSERT, kUPDATE, kDELETE, kCREATE, kDROP, kALTER}

\* variant: the answer is stripped before it is compared
ConfirmedStripped(response) == Lower(Strip(response)) \in {respYes, respY}

\* response = input(...).lower();  response in ['yes', 'y']
Confirmed(response) == Lower(response) \in {respYes, respY}

\* variant: the cancelled marker is left out
CancelledResultUnmarked ==
    [success |-> FALSE, error |-> <<"Operation cancelled by user">>]

CancelledResult ==
    [success |-> FALSE, error |-> <<"Operation cancelled by user">>, cancelled |-> TRUE]

\* variant: an empty result set is reported as a failure
SelectResultEmptyFails(cur) ==
    IF cur.rows = <<>>
    THEN [success |-> FALSE, error |-> <<"No rows">>]
    ELSE [success |-> TRUE, data |-> cur.rows, columns |-> cur.description,
          row_count |-> Len(cur.rows), query_type |-> kSELECT]

SelectResult(cur) ==
    [success |-> TRUE, data |-> cur.rows, columns |-> cur.description,
     row_count |-> Len(cur.rows), query_type |-> kSELECT]

MutationResult(cur, sql_type) ==
    [success |-> TRUE, affected_rows |-> cur.rowcount, last_row_id |-> cur.lastrowid,
     query_type |-> sql_type,
     message |-> sql_type \o <<" operation completed successfully">>]

UnsupportedResult(sql_type) ==
    [success |-> FALSE, error |-> <<"Unsupported query type: ">> \o sql_type]

\* variant: the engine's message is replaced by a fixed text
DatabaseErrorResultGeneric(sql, msg) ==
    [success |-> FALSE, error |-> <<"Database error: ", "query failed">>, sql |-> sql]

DatabaseErrorResult(sql, msg) ==
    [success |-> FALSE, error |-> <<"Database error: ", msg>>, sql |-> sql]

UnexpectedErrorResult(sql, msg) ==
    [success |-> FALSE, error |-> <<"Unexpected error: ", msg>>, sql |-> sql]

\* variant: the change is never committed
CommitSkipped(d, cur) == d

\* conn.commit(): the file takes the state the connection's transaction reached
Commit(d, cur) == cur.d

\* leaving the  with sqlite3.connect(...) as conn  block: commit when the block
\* ended normally (a return included), roll back when it raised
ConnExit(d, cur, raised) == IF raised THEN d ELSE cur.d

\* ------------------------------------------------------------------------
\* Translator adapter (LLMClient)
\* ------------------------------------------------------------------------
\* turns the conversation context may hold
MaxHistory == 9

\* the slice width of  conversation_history[-6:]
ContextWindow == 6

system_prompt == <<"You are DatabaseMate AI, an expert SQL assistant. Your job is to convert natural language into SQLite queries. ...">>

Turn(role, content) == [role |-> role, content |-> content]

\* variant: the slice keeps the oldest n turns, s[:n]
FirstN(s, n) == IF Len(s) <= n THEN s ELSE SubSeq(s, 1, n)

\* s[-n:]
LastN(s, n) == IF Len(s) <= n THEN s ELSE SubSeq(s, Len(s) - n + 1, Len(s))

\* str.find(p, start): the first position from start on where p occurs, 0 if none
RECURSIVE Find(_, _, _)
Find(p, s, start) ==
    IF start + Len(p) - 1 > Len(s) THEN 0
    ELSE IF OccursAt(p, s, start) THEN start
    ELSE Find(p, s, start + 1)

\* str.split('\n')
RECURSIVE SplitLines(_)
SplitLines(s) ==
    LET nl == Find(<<"\n">>, s, 1)
    IN  IF nl = 0 THEN <<s>>
        ELSE <<SubSeq(s, 1, nl - 1)>> \o SplitLines(SubSeq(s, nl + 1, Len(s)))

\* the backquote character
BQ == "(backquote)"

\* (fence)sql
fenceSql == <<BQ,BQ,BQ,"s","q","l">>
\* (fence)
fence == <<BQ,BQ,BQ>>

SqlKeywords == <<kSELECT, kINSERT, kUPDATE, kDELETE, kCREATE, kDROP, kALTER>>

\* the for loop of extract_sql over the lines from line i on
RECURSIVE ScanLines(_, _, _)
ScanLines(lines, i, ai_response) ==
    IF i > Len(lines) THEN Strip(ai_response)
    ELSE LET line == Strip(lines[i])
         IN  IF \E k \in 1..Len(SqlKeywords) : StartsWith(Upper(line), SqlKeywords[k])
             THEN line
             ELSE ScanLines(lines, i + 1, ai_response)

\* variant: the lines are scanned first, the fenced block is the fallback
extract_sql_lines_first(ai_response) ==
    LET open  == Find(fenceSql, ai_response, 1)
        start == open + Len(fenceSql)
        end   == Find(fence, ai_response, start)
        lines == SplitLines(ai_response)
    IN  IF \E i \in 1..Len(lines), k \in 1..Len(SqlKeywords) :
               StartsWith(Upper(Strip(lines[i])), SqlKeywords[k])
        THEN ScanLines(lines, 1, ai_response)
        ELSE IF open # 0 /\ end # 0
        THEN Strip(SubSeq(ai_response, start, end - 1))
        ELSE Strip(ai_response)

\* extract_sql: the statement text taken out of the Translator's content
extract_sql(ai_response) ==
    LET open  == Find(fenceSql, ai_response, 1)
        start == open + Len(fenceSql)
        end   == Find(fence, ai_response, start)
    IN  IF open # 0 /\ end # 0
        THEN Strip(SubSeq(ai_response, start, end - 1))
        ELSE ScanLines(SplitLines(ai_response), 1, ai_response)

\* what the operator asks in plain English
UserInputs == { <<"get rid of the products table">> }

\* the f-string of natural_language_to_sql around the user's words
enhanced_prompt(user_input) ==
    <<"\n        ">> \o user_input \o
    <<"\n        \n        Please provide:\n        1. The SQL query with actual values (no placeholders like ?) ...">>

\* Here you go:\n(fence)sql\nDROP TABLE products\n(fence)\nDone.
rspFencedDrop == <<"H","e","r","e"," ","y","o","u"," ","g","o",":","\n",BQ,BQ,BQ,"s","q","l","\n","D","R","O","P"," ","T","A","B","L","E"," ","p","r","o","d","u","c","t","s","\n",BQ,BQ,BQ,"\n","D","o","n","e",".">>
\* SELECT COUNT(*) FROM users
rspCount == <<"S","E","L","E","C","T"," ","C","O","U","N","T","(","*",")"," ","F","R","O","M"," ","u","s","e","r","s">>
\* I cannot do that
rspProse == <<"I"," ","c","a","n","n","o","t"," ","d","o"," ","t","h","a","t">>
\* the empty response
rspEmpty == <<>>

\* contents the Translator answers with
Responses == {rspFencedDrop, rspCount, rspProse, rspEmpty}

\* what comes back from requests.post: a response with a status code and a
\* content, a timeout, or another exception (connection refused, bad JSON)
Replies ==
    {[kind |-> "response", status_code |-> 200, content |-> c] : c \in Responses}
    \cup {[kind |-> "response", status_code |-> 500, content |-> <<>>],
          [kind |-> "timeout",  status_code |-> 0,   content |-> <<>>],
          [kind |-> "error",    status_code |-> 0,   content |-> <<>>]}

\* variant: the user turn is stored before the request is posted
query_llm_user_first(history, user_message, include_context, reply) ==
    LET messages ==
            (IF include_context
             THEN <<Turn("system", system_prompt)>> \o LastN(history, ContextWindow)
             ELSE <<>>)
            \o <<Turn("user", user_message)>>
        stored == Append(history, Turn("user", user_message))
    IN  IF reply.kind = "response" /\ reply.status_code = 200
        THEN [messages |-> messages,
              history  |-> Append(stored, Turn("assistant", reply.content)),
              none |-> FALSE, ai_response |-> reply.content]
        ELSE [messages |-> messages, history |-> stored,
              none |-> TRUE, ai_response |-> <<>>]

\* query_llm on the given history.  Yields the messages posted, the history
\* afterwards and the returned text (none: the call returned None)
query_llm(history, user_message, include_context, reply) ==
    LET messages ==
            (IF include_context
             THEN <<Turn("system", system_prompt)>> \o LastN(history, ContextWindow)
             ELSE <<>>)
            \o <<Turn("user", user_message)>>
    IN  IF reply.kind = "response" /\ reply.status_code = 200
        THEN [messages |-> messages,
              history  |-> history \o <<Turn("user", user_message),
                                        Turn("assistant", reply.content)>>,
              none |-> FALSE, ai_response |-> reply.content]
        ELSE [messages |-> messages, history |-> history,
              none |-> TRUE, ai_response |-> <<>>]

\* extract_sql of each content, evaluated once
Extracted == [c \in Responses |-> extract_sql(c)]

\* variant: the returned text is used without the  if not ai_response  test
natural_language_to_sql_unchecked(history, user_input, reply) ==
    LET q == query_llm(history, enhanced_prompt(user_input), TRUE, reply)
    IN  [messages |-> q.messages, history |-> q.history,
         result |-> [success |-> TRUE, sql |-> Extracted[q.ai_response],
                     explanation |-> q.ai_response,
                     original_query |-> user_input]]

\* natural_language_to_sql: the result dict, with the messages posted and the
\* history afterwards
natural_language_to_sql(history, user_input, reply) ==
    LET q == query_llm(history, enhanced_prompt(user_input), TRUE, reply)
    IN  IF q.none \/ q.ai_response = <<>>
        THEN [messages |-> q.messages, history |-> q.history,
              result |-> [success |-> FALSE, error |-> <<"Failed to get response from AI">>]]
        ELSE [messages |-> q.messages, history |-> q.history,
              result |-> [success |-> TRUE, sql |-> Extracted[q.ai_response],
                          explanation |-> q.ai_response,
                          original_query |-> user_input]]

\* variant: a new schema turn replaces the schema turns stored before
add_table_context_replacing(history, table_info) ==
    Append(SelectSeq(history, LAMBDA t : t.role # "system"),
           Turn("system", <<"Database schema information:\n">> \o table_info))

\* add_table_context: the history afterwards
add_table_context(history, table_info) ==
    Append(history, Turn("system", <<"Database schema information:\n">> \o table_info))

\* clear_history: the history afterwards
clear_history(history) == <<>>

\* the texts execute_query is called with
GatewayTexts == Statements \cup {Extracted[c] : c \in Responses}

\* is_dangerous_query(sql) and sql.strip().upper().split() of each of them,
\* evaluated once
Verdicts == [s \in GatewayTexts |-> is_dangerous_query(s)]
Tokens   == [s \in GatewayTexts |-> Split(Upper(Strip(s)))]

\* execute_query(sql) with no bind parameters, on database file d.
\* answer is what the operator types if asked; locked is the engine finding
\* the file locked.  Yields the returned dict and the file afterwards, with
\*   asked      the confirmation prompt was shown
\*   connected  sqlite3.connect was called
\*   executed   the statement was handed to cursor.execute
execute_query(d, sql, answer, locked) ==
    LET verdict == Verdicts[sql]
        cur     == CursorExecute(d, sql, locked)
        tokens  == Tokens[sql]
    IN  IF verdict.is_dangerous /\ ~Confirmed(answer)
        THEN [result |-> CancelledResult, db |-> d, asked |-> TRUE,
              connected |-> FALSE, executed |-> FALSE]
        ELSE IF cur.raised
        THEN [result |-> DatabaseErrorResult(sql, cur.msg),
              db |-> ConnExit(d, cur, TRUE), asked |-> verdict.is_dangerous,
              connected |-> TRUE, executed |-> TRUE]
        ELSE IF tokens = <<>>
        THEN [result |-> UnexpectedErrorResult(sql, "list index out of range"),
              db |-> ConnExit(d, cur, TRUE), asked |-> verdict.is_dangerous,
              connected |-> TRUE, executed |-> TRUE]
        ELSE LET sql_type == tokens[1]
             IN  IF sql_type = kSELECT
                 THEN [result |-> SelectResult(cur),
                       db |-> ConnExit(d, cur, FALSE), asked |-> verdict.is_dangerous,
                       connected |-> TRUE, executed |-> TRUE]
                 ELSE IF sql_type \in MutationKinds
                 THEN [result |-> MutationResult(cur, sql_type),
                       db |-> Commit(d, cur), asked |-> verdict.is_dangerous,
                       connected |-> TRUE, executed |-> TRUE]
                 ELSE [result |-> UnsupportedResult(sql_type),
                       db |-> ConnExit(d, cur, FALSE), asked |-> verdict.is_dangerous,
                       connected |-> TRUE, executed |-> TRUE]

\* display_results: which panel the operator sees
display_results(result) ==
    IF ~result.success
    THEN IF "cancelled" \in DOMAIN result /\ result.cancelled
         THEN "Operation cancelled"
         ELSE "Database Error"
    ELSE IF "query_type" \in DOMAIN result /\ result.query_type = kSELECT
         THEN IF result.row_count = 0 THEN "No results found" ELSE "Query Results"
         ELSE "Success"

\* the order in which sqlite_master lists the tables
TableOrder == <<"users", "products", "orders", "notes">>

Digits == <<"0", "1", "2", "3", "4", "5", "6", "7", "8", "9">>

\* the decimal text of a row count (one digit in this model)
Str(n) == Digits[n + 1]

\* the column lines of one table in the schema text
ColumnLines(d, t) ==
    CASE t = "users" ->
            <<"  - id: INTEGER (PRIMARY KEY)\n", "  - name: TEXT (NOT NULL)\n",
              "  - email: TEXT (NOT NULL)\n">>
            \o (IF d.nick THEN <<"  - nick: TEXT\n">> ELSE <<>>)
      [] t = "products" ->
            <<"  - id: INTEGER (PRIMARY KEY)\n", "  - name: TEXT (NOT NULL)\n">>
      [] t = "orders" ->
            <<"  - id: INTEGER (PRIMARY KEY)\n", "  - user_id: INTEGER\n",
              "  - product_id: INTEGER\n">>
      [] OTHER ->
            <<"  - id: INTEGER\n">>

\* the for loop of get_schema_info over the tables from table i on
RECURSIVE SchemaFrom(_, _)
SchemaFrom(d, i) ==
    IF i > Len(TableOrder) THEN <<>>
    ELSE LET t == TableOrder[i]
         IN  (IF t \in DOMAIN d.rows
              THEN <<"Table: ", t, "\n">> \o ColumnLines(d, t)
                   \o <<"  Rows: ", Str(Cardinality(d.rows[t])), "\n\n">>
              ELSE <<>>)
             \o SchemaFrom(d, i + 1)

\* get_schema_info: the schema text, or the error text when the engine fails
get_schema_info(d, locked) ==
    IF locked
    THEN <<"Error getting schema: ", "database is locked">>
    ELSE <<"Database Schema Information:\n\n">> \o SchemaFrom(d, 1)

\* backup files kept
MaxBackups == 1

\* variant: a file already standing at the backup path is left as it is
backup_database_keeping(d, files, same_second, fails) ==
    IF fails THEN [files |-> files, path |-> 0]
    ELSE IF same_second /\ files # <<>>
    THEN [files |-> files, path |-> Len(files)]
    ELSE [files |-> Append(files, d), path |-> Len(files) + 1]

\* backup_database() with the default path, on database file d.  files are
\* the backup files so far, one per path, oldest first.  The path carries the
\* time to the second: a call in the same second as the call before it names
\* the file that call wrote, and shutil.copy2 overwrites it.  fails is copy2
\* raising (the source or the data directory missing or unreadable).  Yields
\* the files afterwards and the place of the returned path among them, 0 for
\* None.
backup_database(d, files, same_second, fails) ==
    IF fails THEN [files |-> files, path |-> 0]
    ELSE IF same_second /\ files # <<>>
    THEN [files |-> [files EXCEPT ![Len(files)] = d], path |-> Len(files)]
    ELSE [files |-> Append(files, d), path |-> Len(files) + 1]

\* ------------------------------------------------------------------------
\* Statement texts for the danger policy on its own
\* ------------------------------------------------------------------------
\* drop table
fDropTableLower == <<"d","r","o","p"," ","t","a","b","l","e">>
\* Drop Database
fDropDatabaseMixed == <<"D","r","o","p"," ","D","a","t","a","b","a","s","e">>
\* tRuNcAtE
fTruncateMixed == <<"t","R","u","N","c","A","t","E">>
\* alter table
fAlterTableLower == <<"a","l","t","e","r"," ","t","a","b","l","e">>
\* delete from
fDeleteFromLower == <<"d","e","l","e","t","e"," ","f","r","o","m">>
\* where
fWhereLower == <<"w","h","e","r","e">>
\* DROP
fDrop == <<"D","R","O","P">>
\* TABLE
fTable == <<"T","A","B","L","E">>
\*  t 
fName == <<" ","t"," ">>
\*  
fSpace == <<" ">>

Fragments ==
    {fDropTableLower, fDropDatabaseMixed, fTruncateMixed, fAlterTableLower,
     opDELETE_FROM, fDeleteFromLower, kwWHERE, fWhereLower,
     fDrop, fTable, fName, fSpace}

RECURSIVE Concat(_)
Concat(fs) == IF fs = <<>> THEN <<>> ELSE Head(fs) \o Concat(Tail(fs))

Texts == {Concat(fs) : fs \in UNION {[1..n -> Fragments] : n \in 0..MaxFrags}}

\* ------------------------------------------------------------------------
\* Translator contents for extract_sql on its own
\* ------------------------------------------------------------------------
\* pieces a content is put together from
MaxParts == 4


\* (the sql fence, the bare fence, the line  Delete it  with its newline,
\* SELECT 1, drop t, Ok, a newline and a blank)
ResponseFragments ==
    {fenceSql, fence,
     <<"D","e","l","e","t","e"," ","i","t","\n">>,
     <<"S","E","L","E","C","T"," ","1">>,
     <<"d","r","o","p"," ","t">>,
     <<"O","k">>,
     <<"\n">>,
     fSpace}

ResponseTexts ==
    {Concat(fs) : fs \in UNION {[1..n -> ResponseFragments] : n \in 0..MaxParts}}

\* ------------------------------------------------------------------------
\* The prompt loop (DatabaseMateAI.run and handle_command)
\* ------------------------------------------------------------------------
\* the words handle_command compares the command with
cmdHelp == <<"h","e","l","p">>
cmdH == <<"h">>
cmdSchema == <<"s","c","h","e","m","a">>
cmdS == <<"s">>
cmdHistory == <<"h","i","s","t","o","r","y">>
cmdHist == <<"h","i","s","t">>
cmdClear == <<"c","l","e","a","r">>
cmdCls == <<"c","l","s">>
cmdBackup == <<"b","a","c","k","u","p">>
cmdB == <<"b">>
cmdStats == <<"s","t","a","t","s">>
cmdStatistics == <<"s","t","a","t","i","s","t","i","c","s">>
cmdQuit == <<"q","u","i","t">>
cmdExit == <<"e","x","i","t">>
cmdQ == <<"q">>

\* the list in the  if  of run
CommandList ==
    {cmdHelp, cmdQuit, cmdExit, cmdSchema, cmdHistory, cmdClear, cmdBackup, cmdStats}

\* str.lstrip('/')
RECURSIVE LStripSlash(_)
LStripSlash(s) ==
    IF s # <<>> /\ Head(s) = "/" THEN LStripSlash(Tail(s)) ELSE s

\* handle_command: the branch taken; "quit" is the branch returning False
handle_command(command) ==
    LET c == Strip(Lower(command))
    IN  IF c \in {cmdHelp, cmdH}                 THEN "display_help"
        ELSE IF c \in {cmdSchema, cmdS}          THEN "get_schema_info"
        ELSE IF c \in {cmdHistory, cmdHist}      THEN "display_history"
        ELSE IF c \in {cmdClear, cmdCls}         THEN "clear_history"
        ELSE IF c \in {cmdBackup, cmdB}          THEN "backup_database"
        ELSE IF c \in {cmdStats, cmdStatistics}  THEN "display_stats"
        ELSE IF c \in {cmdQuit, cmdExit, cmdQ}   THEN "quit"
        ELSE "unknown"

\* variant: only the eight words make a command, a leading slash does not
run_without_slash(typed) ==
    LET user_input == Strip(typed)
    IN  IF user_input = <<>>
        THEN [handler |-> "continue", argument |-> <<>>, continues |-> TRUE]
        ELSE IF Lower(user_input) \in CommandList
        THEN LET command == LStripSlash(user_input)
                 handler == handle_command(command)
             IN  [handler |-> handler, argument |-> command,
                  continues |-> handler # "quit"]
        ELSE [handler |-> "process_natural_language_query",
              argument |-> user_input, continues |-> TRUE]

\* one turn of the while loop of run on the line typed at the prompt: what
\* the line is handed to, the text handed over, and whether the loop goes on
run(typed) ==
    LET user_input == Strip(typed)
    IN  IF user_input = <<>>
        THEN [handler |-> "continue", argument |-> <<>>, continues |-> TRUE]
        ELSE IF StartsWith(user_input, <<"/">>) \/ Lower(user_input) \in CommandList
        THEN LET command == LStripSlash(user_input)
                 handler == handle_command(command)
             IN  [handler |-> handler, argument |-> command,
                  continues |-> handler # "quit"]
        ELSE [handler |-> "process_natural_language_query",
              argument |-> user_input, continues |-> TRUE]


\* what the operator types: a word, bare or behind slashes, with or without
\* blanks around it
\* (the words handle_command knows, then HELP, Quit, EXIT, Q, show users,
\* foo, quit now and the empty word)
Words ==
    {cmdHelp, cmdH, cmdSchema, cmdS, cmdHistory, cmdHist, cmdClear, cmdCls,
     cmdBackup, cmdB, cmdStats, cmdStatistics, cmdQuit, cmdExit, cmdQ,
     <<"H","E","L","P">>,
     <<"Q","u","i","t">>,
     <<"E","X","I","T">>,
     <<"Q">>,
     <<"s","h","o","w"," ","u","s","e","r","s">>,
     <<"f","o","o">>,
     <<"q","u","i","t"," ","n","o","w">>,
     <<>>}

TypedLines ==
    {Concat(<<a, w, z>>) :
        a \in {<<>>, <<"/">>, <<"/", "/">>, <<" ">>, <<" ", "/">>, <<"/", " ">>},
        w \in Words,
        z \in {<<>>, <<" ">>}}

\* ------------------------------------------------------------------------
\* State
\* ------------------------------------------------------------------------
VARIABLES
    db,                    \* the database file
    call,                  \* the latest execute_query call and what it returned
    conversation_history,  \* LLMClient.conversation_history
    session_queries,       \* DatabaseMateAI.session_queries
    request,               \* the latest request sent to the Translator
    nlq,                   \* the latest process_natural_language_query run
    op,                    \* the operation that ran last
    sql_in,                \* a statement text given to the danger policy
    verdict,               \* what is_dangerous_query answered for sql_in
    text_in,               \* a text given to extract_sql or typed at the prompt
    text_out,              \* what extract_sql returned, or where run sent the input
    backups,               \* the backup files, oldest first
    backup_ret,            \* the latest backup_database call and what it returned
    unclosed               \* a connection opened by the DatabaseManager is open

vars ==
    <<db, call, conversation_history, session_queries, request, nlq, op, sql_in,
      verdict, text_in, text_out, backups, backup_ret, unclosed>>

NoCall == [made |-> FALSE]
NoRequest == [sent |-> FALSE]
NoRun == [made |-> FALSE]
NoVerdict == [assessed |-> FALSE]
NoOutput == [done |-> FALSE]
NoBackup == [made |-> FALSE]

Init ==
    /\ db = init_database
    /\ call = NoCall
    /\ conversation_history = <<>>
    /\ session_queries = <<>>
    /\ request = NoRequest
    /\ nlq = NoRun
    /\ op = "init"
    /\ sql_in = <<>>
    /\ verdict = NoVerdict
    /\ text_in = <<>>
    /\ text_out = NoOutput
    /\ backups = <<>>
    /\ backup_ret = NoBackup
    /\ unclosed = FALSE

\* ------------------------------------------------------------------------
\* DatabaseManager operations
\* ------------------------------------------------------------------------
\* the record kept of an execute_query call
CallRecord(sql, answer, locked, out) ==
    [made |-> TRUE, sql |-> sql, answer |-> answer, locked |-> locked,
     before |-> db, asked |-> out.asked, connected |-> out.connected,
     executed |-> out.executed, result |-> out.result,
     shown |-> display_results(out.result)]

ExecuteQueryWith(sql, answer, locked) ==
    LET out == execute_query(db, sql, answer, locked)
    IN  /\ db' = out.db
        /\ call' = CallRecord(sql, answer, locked, out)
        /\ op' = "execute_query"
        /\ request' = NoRequest /\ nlq' = NoRun
        /\ unclosed' = (unclosed \/ out.connected)
        /\ UNCHANGED <<conversation_history, session_queries, sql_in, verdict,
                       text_in, text_out, backups, backup_ret>>

ExecuteQuery ==
    \E sql \in Statements, locked \in BOOLEAN :
        /\ TakesId(sql) => db.useq < MaxId
        /\ IF Verdicts[sql].is_dangerous
           THEN \E answer \in Answers : ExecuteQueryWith(sql, answer, locked)
           ELSE ExecuteQueryWith(sql, ansEmpty, locked)

NextGateway == ExecuteQuery

SpecGateway == Init /\ [][NextGateway]_vars

\* ------------------------------------------------------------------------
\* The database file, its connections and its backups
\* ------------------------------------------------------------------------
\* the statements run between backups
StoreStatements == {stCount, stSelectMissing, stInsertZ, stDeleteAll, stDropProducts}

ExecuteStored ==
    \E sql \in StoreStatements, locked \in BOOLEAN :
        /\ TakesId(sql) => db.useq < MaxId
        /\ IF Verdicts[sql].is_dangerous
           THEN \E answer \in Answers : ExecuteQueryWith(sql, answer, locked)
           ELSE ExecuteQueryWith(sql, ansEmpty, locked)

\* handle_command('schema'): get_schema_info() opens a connection of its own,
\* whether the read succeeds or the engine finds the file locked
GetSchemaInfo ==
    \E locked \in BOOLEAN :
        /\ get_schema_info(db, locked) # <<>>
        /\ unclosed' = TRUE
        /\ op' = "get_schema_info"
        /\ call' = NoCall /\ request' = NoRequest /\ nlq' = NoRun
        /\ UNCHANGED <<db, conversation_history, session_queries, sql_in, verdict,
                       text_in, text_out, backups, backup_ret>>

\* handle_command('backup'): backup_database()
BackupDatabase ==
    \E same_second \in BOOLEAN, fails \in BOOLEAN :
        LET out == backup_database(db, backups, same_second, fails)
        IN  /\ Len(out.files) <= MaxBackups
            /\ backups' = out.files
            /\ backup_ret' = [made |-> TRUE, path |-> out.path, before |-> db]
            /\ op' = "backup_database"
            /\ call' = NoCall /\ request' = NoRequest /\ nlq' = NoRun
            /\ UNCHANGED <<db, conversation_history, session_queries, sql_in,
                           verdict, text_in, text_out, unclosed>>

\* the garbage collector finalizes the connection objects no longer
\* referenced, which closes them; no code path calls conn.close()
CollectConnections ==
    /\ unclosed
    /\ unclosed' = FALSE
    /\ UNCHANGED <<db, call, conversation_history, session_queries, request, nlq,
                   op, sql_in, verdict, text_in, text_out, backups, backup_ret>>

NextStore ==
    \/ ExecuteStored
    \/ GetSchemaInfo
    \/ BackupDatabase
    \/ CollectConnections

SpecStore == Init /\ [][NextStore]_vars

\* ------------------------------------------------------------------------
\* The session: translator adapter, clear command and the pipeline
\* (call, request and nlq describe the operation that ran last; an operation
\* that makes no such call leaves NoCall, NoRequest, NoRun)
\* ------------------------------------------------------------------------
\* the record kept of a natural_language_to_sql call: the messages posted, the
\* history they were built from, the user message, what came back from the
\* Translator and the result dict returned
RequestRecord(t, context, user_message, reply) ==
    [sent |-> TRUE, messages |-> t.messages, context |-> context,
     user_message |-> user_message, kind |-> reply.kind,
     status_code |-> reply.status_code, content |-> reply.content,
     result |-> t.result]

\* get_schema_info on an unlocked file, then add_table_context with its text
AddTableContext ==
    /\ Len(conversation_history) < MaxHistory
    /\ conversation_history' =
           add_table_context(conversation_history, get_schema_info(db, FALSE))
    /\ op' = "add_table_context"
    /\ call' = NoCall /\ request' = NoRequest /\ nlq' = NoRun
    /\ unclosed' = TRUE
    /\ UNCHANGED <<db, session_queries, sql_in, verdict, text_in, text_out,
                   backups, backup_ret>>

NaturalLanguageToSql ==
    \E u \in UserInputs, reply \in Replies :
        LET t == natural_language_to_sql(conversation_history, u, reply)
        IN  /\ Len(t.history) <= MaxHistory
            /\ conversation_history' = t.history
            /\ request' = RequestRecord(t, conversation_history, enhanced_prompt(u), reply)
            /\ op' = "natural_language_to_sql"
            /\ call' = NoCall /\ nlq' = NoRun
            /\ UNCHANGED <<db, session_queries, sql_in, verdict, text_in, text_out,
                   backups, backup_ret, unclosed>>

\* handle_command('clear')
ClearCommand ==
    /\ conversation_history' = clear_history(conversation_history)
    /\ session_queries' = <<>>
    /\ op' = "clear"
    /\ call' = NoCall /\ request' = NoRequest /\ nlq' = NoRun
    /\ UNCHANGED <<db, sql_in, verdict, text_in, text_out, backups, backup_ret, unclosed>>

\* variant: the answer to "Execute this query?" is not looked at
RunTranslatedUngated(u, sql) ==
    LET Run(confirm, answer, locked) ==
            LET out == execute_query(db, sql, answer, locked)
            IN  /\ db' = out.db
                /\ call' = CallRecord(sql, answer, locked, out)
                /\ session_queries' = Append(session_queries, u)
                /\ nlq' = [made |-> TRUE, user_input |-> u, translated |-> TRUE,
                           sql |-> sql, confirm |-> confirm, ran |-> TRUE]
    IN  IF Verdicts[sql].is_dangerous
        THEN \E confirm \in {"yes", "no"}, answer \in Answers, locked \in BOOLEAN :
                 Run(confirm, answer, locked)
        ELSE \E locked \in BOOLEAN : Run("", ansEmpty, locked)

\* the pipeline from the confirmation of a dangerous statement on
RunTranslated(u, sql) ==
    LET Run(confirm, answer, locked) ==
            LET out == execute_query(db, sql, answer, locked)
            IN  /\ db' = out.db
                /\ call' = CallRecord(sql, answer, locked, out)
                /\ session_queries' = Append(session_queries, u)
                /\ nlq' = [made |-> TRUE, user_input |-> u, translated |-> TRUE,
                           sql |-> sql, confirm |-> confirm, ran |-> TRUE]
    IN  IF Verdicts[sql].is_dangerous
        THEN \/ /\ nlq' = [made |-> TRUE, user_input |-> u, translated |-> TRUE,
                           sql |-> sql, confirm |-> "no", ran |-> FALSE]
                /\ call' = NoCall
                /\ UNCHANGED <<db, session_queries>>
             \/ \E answer \in Answers, locked \in BOOLEAN : Run("yes", answer, locked)
        ELSE \E locked \in BOOLEAN : Run("", ansEmpty, locked)

\* process_natural_language_query; the schema is read from an unlocked file
ProcessNaturalLanguageQuery ==
    \E u \in UserInputs, reply \in Replies :
        LET schema_info == get_schema_info(db, FALSE)
            context     == add_table_context(conversation_history, schema_info)
            t           == natural_language_to_sql(context, u, reply)
        IN  /\ Len(t.history) <= MaxHistory
            /\ conversation_history' = t.history
            /\ request' = RequestRecord(t, context, enhanced_prompt(u), reply)
            /\ op' = "process_natural_language_query"
            /\ unclosed' = TRUE
            /\ UNCHANGED <<sql_in, verdict, text_in, text_out, backups, backup_ret>>
            /\ IF t.result.success
               THEN RunTranslated(u, t.result.sql)
               ELSE /\ nlq' = [made |-> TRUE, user_input |-> u, translated |-> FALSE,
                               sql |-> <<>>, confirm |-> "", ran |-> FALSE]
                    /\ call' = NoCall
                    /\ UNCHANGED <<db, session_queries>>

Next ==
    \/ AddTableContext
    \/ NaturalLanguageToSql
    \/ ClearCommand
    \/ ProcessNaturalLanguageQuery

Spec == Init /\ [][Next]_vars

\* ------------------------------------------------------------------------
\* The danger policy applied to a statement text
\* ------------------------------------------------------------------------
InitAssess ==
    /\ db = init_database
    /\ call = NoCall
    /\ conversation_history = <<>>
    /\ session_queries = <<>>
    /\ request = NoRequest
    /\ nlq = NoRun
    /\ op = "init"
    /\ sql_in \in Texts
    /\ verdict = NoVerdict
    /\ text_in = <<>>
    /\ text_out = NoOutput
    /\ backups = <<>>
    /\ backup_ret = NoBackup
    /\ unclosed = FALSE

Assess ==
    /\ ~verdict.assessed
    /\ verdict' = [assessed |-> TRUE] @@ is_dangerous_query(sql_in)
    /\ op' = "is_dangerous_query"
    /\ UNCHANGED <<db, call, conversation_history, session_queries, request, nlq,
                   sql_in, text_in, text_out, backups, backup_ret, unclosed>>

NextAssess == Assess

SpecAssess == InitAssess /\ [][NextAssess]_vars

\* ------------------------------------------------------------------------
\* extract_sql applied to a Translator content
\* ------------------------------------------------------------------------
InitExtract ==
    /\ db = init_database
    /\ call = NoCall
    /\ conversation_history = <<>>
    /\ session_queries = <<>>
    /\ request = NoRequest
    /\ nlq = NoRun
    /\ op = "init"
    /\ sql_in = <<>>
    /\ verdict = NoVerdict
    /\ text_in \in ResponseTexts
    /\ text_out = NoOutput
    /\ backups = <<>>
    /\ backup_ret = NoBackup
    /\ unclosed = FALSE

ExtractSql ==
    /\ ~text_out.done
    /\ text_out' = [done |-> TRUE, sql |-> extract_sql(text_in)]
    /\ op' = "extract_sql"
    /\ UNCHANGED <<db, call, conversation_history, session_queries, request, nlq,
                   sql_in, verdict, text_in, backups, backup_ret, unclosed>>

NextExtract == ExtractSql

SpecExtract == InitExtract /\ [][NextExtract]_vars

\* ------------------------------------------------------------------------
\* The prompt loop applied to a typed line
\* ------------------------------------------------------------------------
InitRun ==
    /\ db = init_database
    /\ call = NoCall
    /\ conversation_history = <<>>
    /\ session_queries = <<>>
    /\ request = NoRequest
    /\ nlq = NoRun
    /\ op = "init"
    /\ sql_in = <<>>
    /\ verdict = NoVerdict
    /\ text_in \in TypedLines
    /\ text_out = NoOutput
    /\ backups = <<>>
    /\ backup_ret = NoBackup
    /\ unclosed = FALSE

\* the loop reads the line and hands it on
RunTurn ==
    /\ ~text_out.done
    /\ text_out' = [done |-> TRUE, interrupted |-> FALSE] @@ run(text_in)
    /\ op' = "run"
    /\ UNCHANGED <<db, call, conversation_history, session_queries, request, nlq,
                   sql_in, verdict, text_in, backups, backup_ret, unclosed>>

\* Prompt.ask raises KeyboardInterrupt, or another exception (end of input):
\* the  except  clauses of run end the loop
RunInterrupted ==
    /\ ~text_out.done
    /\ text_out' = [done |-> TRUE, interrupted |-> TRUE, handler |-> "except",
                    argument |-> <<>>, continues |-> FALSE]
    /\ op' = "run"
    /\ UNCHANGED <<db, call, conversation_history, session_queries, request, nlq,
                   sql_in, verdict, text_in, backups, backup_ret, unclosed>>

NextRun ==
    \/ RunTurn
    \/ RunInterrupted

SpecRun == InitRun /\ [][NextRun]_vars

\* ------------------------------------------------------------------------
\* Vocabulary of the properties
\* ------------------------------------------------------------------------
\* character c is the upper-case letter u or its lower-case form
SameLetter(c, u) == c = u \/ (u \in UpperSet /\ c = LowerOf[u])

\* pattern p (upper case) stands at position i of s in some letter case
AnyCaseAt(p, s, i) ==
    /\ i >= 1
    /\ i + Len(p) - 1 <= Len(s)
    /\ \A k \in 1..Len(p) : SameLetter(s[i + k - 1], p[k])

\* s contains p in some letter case
HasAnyCase(p, s) == \E i \in 1..Len(s) : AnyCaseAt(p, s, i)

\* the answer is yes or y in some letter case
SaysYes(a) ==
    \/ Len(a) = 1 /\ a[1] \in {"y", "Y"}
    \/ Len(a) = 3 /\ a[1] \in {"y", "Y"} /\ a[2] \in {"e", "E"} /\ a[3] \in {"s", "S"}

\* the latest call was for a statement the danger policy flags
CallDangerous == call.made /\ is_dangerous_query(call.sql).is_dangerous

\* the latest call was declined at the confirmation prompt
CallDeclined == CallDangerous /\ ~SaysYes(call.answer)

\* what the engine did with the statement of the latest call
CallCursor == CursorExecute(call.before, call.sql, call.locked)

\* the latest call reached the engine, and the engine accepted / failed it
CallAccepted == call.made /\ ~CallDeclined /\ ~CallCursor.raised
CallFailed   == call.made /\ ~CallDeclined /\ CallCursor.raised

\* the operation kind of the statement of the latest call: its first token,
\* or the empty text when it has no token
CallKind ==
    LET tokens == Split(Upper(Strip(call.sql)))
    IN  IF tokens = <<>> THEN <<>> ELSE tokens[1]

\* the statement of the latest call has a first token, and it is none of the
\* seven kinds
CallUnsupported ==
    call.made /\ CallKind # <<>> /\ CallKind \notin ({kSELECT} \cup MutationKinds)

RowSetKeys   == {"data", "columns", "row_count"}
MutationKeys == {"affected_rows", "last_row_id"}
ErrorKeys    == {"error"}

\* the number of result shapes that have a key in r
ShapesPopulated(r) ==
    Cardinality({K \in {RowSetKeys, MutationKeys, ErrorKeys} : K \cap DOMAIN r # {}})

IsError(r) == ~r.success /\ "error" \in DOMAIN r
IsCancelled(r) == "cancelled" \in DOMAIN r /\ r.cancelled

\* ------------------------------------------------------------------------
\* Properties of the execution gateway
\* ------------------------------------------------------------------------
\* C1: a dangerous statement whose confirmation is declined (any answer but
\* yes / y in any letter case) returns the Cancelled outcome, not an engine
\* error, and leaves the database untouched: no connection, no statement run,
\* the file as before.
C1_DeclineCancels ==
    CallDeclined =>
        /\ IsCancelled(call.result)
        /\ call.result.error = <<"Operation cancelled by user">>
        /\ "sql" \notin DOMAIN call.result
        /\ call.shown = "Operation cancelled"
        /\ ~call.connected
        /\ ~call.executed
        /\ db = call.before

C1_Witness ==
    /\ CallDeclined
    /\ call.sql = stDropProducts
    /\ call.answer = ansYesPadded
    /\ Cardinality(db.rows["products"]) = Cardinality(sample_products)

\* C2: a statement of UNSUPPORTED kind returns an Error without touching the
\* database: it is never handed to the engine and the file is as before.
C2_UnsupportedUntouched ==
    CallUnsupported =>
        /\ IsError(call.result)
        /\ ~call.executed
        /\ db = call.before

\* C5: when the engine fails a statement, execute_query returns an Error that
\* carries the engine's message and the SQL text, and the file is as before.
C5_EngineFailureIsError ==
    CallFailed =>
        /\ IsError(call.result)
        /\ ~IsCancelled(call.result)
        /\ call.result.error = <<"Database error: ", CallCursor.msg>>
        /\ "sql" \in DOMAIN call.result
        /\ call.result.sql = call.sql
        /\ call.shown = "Database Error"
        /\ db = call.before

C5_Witness ==
    /\ CallFailed
    /\ call.sql = stInsertZ
    /\ ~call.locked
    /\ call.result.error[2] = "UNIQUE constraint failed: users.email"

\* C6: every result has exactly one of the shapes RowSet, MutationSummary,
\* Error populated; the cancelled marker, and the cancelled display, appear
\* on the decline path and on no other.
C6_OneShape ==
    call.made =>
        /\ ShapesPopulated(call.result) = 1
        /\ call.result.success <=> ~IsError(call.result)
        /\ IsCancelled(call.result) <=> CallDeclined
        /\ (call.shown = "Operation cancelled") <=> CallDeclined

C6_Witness ==
    /\ CallDeclined
    /\ IsCancelled(call.result)
    /\ call.sql = stDeleteAll

\* C7: an accepted INSERT, UPDATE, DELETE, CREATE, DROP or ALTER is committed
\* before the MutationSummary (affected rows, generated id, kind) is returned,
\* and the next call sees it: a SELECT for the row just inserted returns
\* exactly that row.
C7_Committed ==
    (CallAccepted /\ CallKind \in MutationKinds) =>
        /\ call.result.success
        /\ ShapesPopulated(call.result) = 1
        /\ call.result.affected_rows = CallCursor.rowcount
        /\ call.result.last_row_id = CallCursor.lastrowid
        /\ call.result.query_type = CallKind
        /\ db = CallCursor.d
        /\ call.sql = stInsertZ =>
              /\ call.result.affected_rows = 1
              /\ \E r \in db.rows["users"] \ call.before.rows["users"] :
                    r.id = call.result.last_row_id /\ r.email = ZEmail

C7_SelectAfterInsert ==
    (/\ call.made /\ call.sql = stInsertZ /\ call.result.success
     /\ call'.made /\ call'.sql = stSelectZ /\ ~call'.locked)
    => /\ call'.result.success
       /\ call'.result.row_count = 1
       /\ call'.result.data[1]["email"] = ZEmail
       /\ call'.result.data[1]["id"] = call.result.last_row_id

C7_CommitVisible == [](C7_Committed) /\ [][C7_SelectAfterInsert]_vars

C7_Witness ==
    /\ CallAccepted
    /\ call.sql = stSelectZ
    /\ call.result.row_count = 1
    /\ call.result.data[1]["name"] = "Zed"

\* C8: an accepted SELECT returns a successful RowSet with all rows, their
\* number and the column names of the result; no row is a success with an
\* empty sequence, and COUNT(*) over an empty table is one row holding 0.
C8_SelectRowSet ==
    (CallAccepted /\ CallKind = kSELECT) =>
        /\ call.result.success
        /\ ShapesPopulated(call.result) = 1
        /\ call.result.data = CallCursor.rows
        /\ call.result.row_count = Len(CallCursor.rows)
        /\ call.result.columns = CallCursor.description
        /\ (call.sql = stSelectZ /\ \A r \in call.before.rows["users"] : r.email # ZEmail)
              => call.result.data = <<>> /\ call.result.row_count = 0
        /\ (call.sql = stCount /\ call.before.rows["users"] = {})
              => /\ call.result.row_count = 1
                 /\ call.result.columns = <<"COUNT(*)">>
                 /\ call.result.data[1]["COUNT(*)"] = 0

C8_Witness ==
    /\ CallAccepted
    /\ call.sql = stCount
    /\ call.before.rows["users"] = {}
    /\ call.result.success
    /\ call.result.data[1]["COUNT(*)"] = 0

\* ------------------------------------------------------------------------
\* Properties of the danger policy
\* ------------------------------------------------------------------------
\* the text has the form DELETE FROM <x> WHERE <y>, in some letter case
IsDeleteWhere(s) ==
    LET t == Strip(s)
    IN  /\ AnyCaseAt(opDELETE_FROM, t, 1)
        /\ \E i \in (Len(opDELETE_FROM) + 1)..Len(t) : AnyCaseAt(kwWHERE, t, i)

AlwaysDangerous == {opDROP_TABLE, opDROP_DATABASE, opTRUNCATE, opALTER_TABLE}

\* C3: a text that contains DROP TABLE, DROP DATABASE, TRUNCATE or ALTER TABLE
\* in any letter case is dangerous, whatever else it contains.
C3_AlwaysDangerous ==
    (verdict.assessed /\ \E p \in AlwaysDangerous : HasAnyCase(p, sql_in))
        => verdict.is_dangerous

C3_Witness ==
    /\ verdict.assessed
    /\ HasAnyCase(opTRUNCATE, sql_in)
    /\ IsDeleteWhere(sql_in)
    /\ verdict.is_dangerous

\* C4 as stated: every DELETE FROM <x> WHERE <y> is not dangerous, and every
\* text with DELETE FROM and no WHERE is dangerous.
C4_DeleteWhereAsStated ==
    verdict.assessed =>
        /\ IsDeleteWhere(sql_in) => ~verdict.is_dangerous
        /\ (HasAnyCase(opDELETE_FROM, sql_in) /\ ~HasAnyCase(kwWHERE, sql_in))
              => verdict.is_dangerous

\* C4 amended: a DELETE FROM <x> WHERE <y> that contains none of DROP TABLE,
\* DROP DATABASE, TRUNCATE, ALTER TABLE is not dangerous, and every text with
\* DELETE FROM and no WHERE (in any letter case) is dangerous.
C4_DeleteWhere ==
    verdict.assessed =>
        /\ (IsDeleteWhere(sql_in) /\ \A p \in AlwaysDangerous : ~HasAnyCase(p, sql_in))
              => ~verdict.is_dangerous /\ verdict.warning = ""
        /\ (HasAnyCase(opDELETE_FROM, sql_in) /\ ~HasAnyCase(kwWHERE, sql_in))
              => verdict.is_dangerous

C4_Witness ==
    /\ verdict.assessed
    /\ IsDeleteWhere(sql_in)
    /\ Len(sql_in) > Len(opDELETE_FROM) + Len(kwWHERE)
    /\ ~verdict.is_dangerous

\* ------------------------------------------------------------------------
\* Properties of the conversation context
\* ------------------------------------------------------------------------
\* a is an initial part of b
IsPrefix(a, b) == Len(a) <= Len(b) /\ \A i \in 1..Len(a) : a[i] = b[i]

\* C9: a request to the Translator carries the system prompt, then the (at
\* most) 6 most recent turns of the context in their order, then the user
\* message; the stored context is not truncated by the call.
C9_WindowOfSix ==
    request.sent =>
        LET m    == request.messages
            ctx  == request.context
            kept == Len(m) - 2
        IN  /\ Len(m) >= 2
            /\ m[1] = Turn("system", system_prompt)
            /\ m[Len(m)] = Turn("user", request.user_message)
            /\ kept <= 6
            /\ kept = (IF Len(ctx) < 6 THEN Len(ctx) ELSE 6)
            /\ \A i \in 1..kept : m[1 + i] = ctx[Len(ctx) - kept + i]
            /\ IsPrefix(ctx, conversation_history)

C9_Witness ==
    /\ request.sent
    /\ Len(request.context) > 6
    /\ Len(request.messages) = 8
    /\ request.messages[2] = request.context[Len(request.context) - 5]

\* C10: every operation but the clear keeps the stored turns, unchanged and
\* in order, and only adds turns at the end; the clear empties the context.
C10_Step ==
    /\ op' # "clear" => IsPrefix(conversation_history, conversation_history')
    /\ op' = "clear" => conversation_history' = <<>>

C10_AppendOnly == [][C10_Step]_vars

C10_Witness ==
    /\ op = "process_natural_language_query"
    /\ request.sent
    /\ Len(request.context) >= 4
    /\ Len(conversation_history) = Len(request.context) + 2

\* ------------------------------------------------------------------------
\* Properties of the pipeline
\* ------------------------------------------------------------------------
\* the latest Translator call failed: a status other than 200, a timeout or
\* another exception
TranslatorFailed ==
    request.sent /\ ~(request.kind = "response" /\ request.status_code = 200)

\* the latest operation was a process_natural_language_query request
PipelineRan == op = "process_natural_language_query" /\ nlq.made

\* after a failed Translator call the result dict reports a failure with an
\* error text, and a pipeline request has stopped before any execute_query
C11_FailureResult ==
    TranslatorFailed =>
        /\ IsError(request.result)
        /\ request.result.error # <<>>
        /\ "sql" \notin DOMAIN request.result
        /\ PipelineRan => ~nlq.translated /\ ~nlq.ran /\ call = NoCall

\* a step whose Translator call failed leaves the database file and the
\* session's query list as they were
C11_FailureStep ==
    TranslatorFailed' => db' = db /\ session_queries' = session_queries

\* C11: whenever the Translator call fails (status other than 200, timeout,
\* any other exception) natural_language_to_sql returns a failure result with
\* an error text instead of raising, and process_natural_language_query ends
\* the request without sending any statement to the database.
C11_FailureEndsRequest == [](C11_FailureResult) /\ [][C11_FailureStep]_vars

\* a pipeline request whose Translator call timed out
C11_Witness ==
    /\ PipelineRan /\ TranslatorFailed /\ request.kind = "timeout"
    /\ ~request.result.success

\* ------------------------------------------------------------------------
\* Properties of extract_sql
\* ------------------------------------------------------------------------
\* an opening fence tagged sql stands at i and a fence closes it at j
FencedAt(r, i, j) ==
    OccursAt(fenceSql, r, i) /\ j >= i + Len(fenceSql) /\ OccursAt(fence, r, j)

\* r contains a closed fenced block tagged sql
HasSqlBlock(r) == \E i \in 1..Len(r), j \in 1..Len(r) : FencedAt(r, i, j)

\* the content of the first such block: from its tag to the next fence
BlockContent(r) ==
    LET i == CHOOSE i \in 1..Len(r) :
                 /\ \E j \in 1..Len(r) : FencedAt(r, i, j)
                 /\ \A k \in 1..(i - 1) : ~OccursAt(fenceSql, r, k)
        j == CHOOSE j \in 1..Len(r) :
                 /\ FencedAt(r, i, j)
                 /\ \A k \in (i + Len(fenceSql))..(j - 1) : ~OccursAt(fence, r, k)
    IN  SubSeq(r, i + Len(fenceSql), j - 1)

\* line l, once trimmed, starts with one of the seven keywords in some case
KeywordLine(l) ==
    \E k \in 1..Len(SqlKeywords) : AnyCaseAt(SqlKeywords[k], Strip(l), 1)

\* the first line of r that is a keyword line
FirstKeywordLine(r) ==
    LET lines == SplitLines(r)
        n == CHOOSE n \in 1..Len(lines) :
                 /\ KeywordLine(lines[n])
                 /\ \A k \in 1..(n - 1) : ~KeywordLine(lines[k])
    IN  lines[n]

HasKeywordLine(r) ==
    LET lines == SplitLines(r) IN \E n \in 1..Len(lines) : KeywordLine(lines[n])

\* C12: extract_sql follows a fixed ordered fallback chain: a closed fenced
\* block tagged sql gives exactly its trimmed content whatever prose surrounds
\* it; otherwise the first line that, once trimmed, starts with a recognized
\* SQL keyword; otherwise the whole trimmed response.
C12_FallbackChain ==
    text_out.done /\ op = "extract_sql" =>
        text_out.sql =
            IF HasSqlBlock(text_in) THEN Strip(BlockContent(text_in))
            ELSE IF HasKeywordLine(text_in) THEN Strip(FirstKeywordLine(text_in))
            ELSE Strip(text_in)

\* a content whose first line is prose starting with a keyword and which
\* holds a closed sql block further on; the block's statement was extracted
C12_Witness ==
    /\ text_out.done /\ op = "extract_sql"
    /\ HasSqlBlock(text_in)
    /\ KeywordLine(SplitLines(text_in)[1])
    /\ Find(fenceSql, text_in, 1) > Len(SplitLines(text_in)[1])
    /\ text_out.sql = <<"S","E","L","E","C","T"," ","1">>

\* ------------------------------------------------------------------------
\* Properties of the classification inside execute_query
\* ------------------------------------------------------------------------
\* the result reports the statement's kind as unsupported
IsUnsupported(r) ==
    IsError(r) /\ r.error # <<>> /\ r.error[1] = "Unsupported query type: "

\* C13: the gateway picks its result branch solely from the upper-cased first
\* whitespace-delimited token of the trimmed text: SELECT gives the RowSet
\* branch, the six mutation kinds a MutationSummary of that kind, and any
\* other text, the empty and the whitespace-only text included, is
\* unsupported; letter case and leading whitespace never change the kind.
C13_BranchByFirstToken ==
    CallAccepted =>
        LET r == call.result
        IN  IF CallKind = kSELECT
            THEN r.success /\ RowSetKeys \subseteq DOMAIN r /\ r.query_type = kSELECT
            ELSE IF CallKind \in MutationKinds
            THEN r.success /\ MutationKeys \subseteq DOMAIN r /\ r.query_type = CallKind
            ELSE IsUnsupported(r)

\* ------------------------------------------------------------------------
\* Properties of the connections and the backups
\* ------------------------------------------------------------------------
\* C14: one connection per operation, opened and closed around each
\* statement: whenever no call is in progress, no connection opened by the
\* DatabaseManager is still open, on the success and the error path alike.
C14_NoConnectionLeftOpen == ~unclosed

\* the step hands a statement the danger policy flags to the engine
DangerExecuted ==
    /\ op' = "execute_query" /\ call'.made /\ call'.executed
    /\ Verdicts[call'.sql].is_dangerous

\* when the step is over, some backup file holds the database as it stood
\* before the statement
C15_BackedUpFirst ==
    DangerExecuted => \E i \in 1..Len(backups') : backups'[i] = db

\* C15: as the help guide states, a backup is taken automatically before a
\* major change: whenever a dangerous statement is confirmed and executed, a
\* backup has been created before the statement reaches the engine.
C15_AutomaticBackup == [][C15_BackedUpFirst]_vars

\* the latest backup_database call returned a path
BackupReturned == backup_ret.made /\ backup_ret.path # 0

\* the database file that copying the returned backup file back gives
Restored == backups[backup_ret.path]

\* the file restored from the latest backup is the database as it was when
\* the backup was taken, schema and row counts included, whatever statements
\* have run since
C17_RoundTrip ==
    BackupReturned =>
        /\ backup_ret.path \in 1..Len(backups)
        /\ Restored = backup_ret.before
        /\ get_schema_info(Restored, FALSE) = get_schema_info(backup_ret.before, FALSE)

\* a backup_database step leaves the live database as it was; when it
\* succeeds the returned file is a copy of it, and when it fails no path is
\* returned and no backup file changes
C17_BackupStep ==
    op' = "backup_database" /\ backup_ret'.made =>
        /\ db' = db
        /\ IF backup_ret'.path # 0
           THEN backups'[backup_ret'.path] = db
           ELSE backups' = backups

\* C17: a successful backup_database produces a copy of the database as it
\* was when the backup was taken and leaves the live database unchanged, so
\* that restoring from it after any later mutations gives the pre-backup
\* schema and row counts; a failed backup returns no path and changes nothing.
C17_BackupRoundTrip == [](C17_RoundTrip) /\ [][C17_BackupStep]_vars

\* a backup was taken, the database was changed afterwards, and the backup
\* file still holds the database as it was
C17_Witness ==
    /\ BackupReturned
    /\ op = "execute_query" /\ call.made /\ call.sql = stDeleteAll
    /\ db # backup_ret.before
    /\ Restored = backup_ret.before

\* ------------------------------------------------------------------------
\* Properties of the prompt loop
\* ------------------------------------------------------------------------
\* a turn of the loop has handled the typed line
TurnDone == op = "run" /\ text_out.done

\* the line was passed to process_natural_language_query
ToPipeline == text_out.handler = "process_natural_language_query"

\* the typed line without the blanks around it
TypedTrimmed == Strip(text_in)

\* it is one of the eight words, in some letter case
IsCommandWord == Lower(TypedTrimmed) \in CommandList

\* it starts with a slash
IsSlashed == TypedTrimmed # <<>> /\ TypedTrimmed[1] = "/"

\* what follows its leading slashes, lower-cased and trimmed
CommandPart ==
    LET u == TypedTrimmed
        n == CHOOSE n \in 0..Len(u) :
                 /\ \A k \in 1..n : u[k] = "/"
                 /\ n < Len(u) => u[n + 1] # "/"
    IN  Strip(Lower(SubSeq(u, n + 1, Len(u))))

\* as the specification words it: every non-empty line that is none of the eight words
\* goes to process_natural_language_query, and only quit and exit end the loop
C16_AsStated ==
    TurnDone /\ ~text_out.interrupted =>
        /\ TypedTrimmed # <<>> /\ ~IsCommandWord =>
               ToPipeline /\ text_out.argument = TypedTrimmed
        /\ ~text_out.continues => Lower(TypedTrimmed) \in {cmdQuit, cmdExit}

\* C16: in the prompt loop a non-empty line is handled as a command when it
\* starts with a slash or is one of help, schema, history, clear, backup,
\* stats, quit, exit in any letter case; every other non-empty line is passed
\* as it is to process_natural_language_query; the loop ends only on a
\* command that reads quit, exit or q behind its slashes, or on an interrupt.
C16_Dispatch ==
    TurnDone =>
        /\ ToPipeline <=>
               /\ ~text_out.interrupted
               /\ TypedTrimmed # <<>> /\ ~IsSlashed /\ ~IsCommandWord
        /\ ToPipeline => text_out.argument = TypedTrimmed /\ text_out.continues
        /\ ~text_out.continues <=>
               \/ text_out.interrupted
               \/ /\ IsSlashed \/ IsCommandWord
                  /\ CommandPart \in {cmdQuit, cmdExit, cmdQ}

\* a line typed with blanks around it went to the pipeline without them
C16_Witness ==
    /\ TurnDone /\ ToPipeline
    /\ text_out.argument = <<"s","h","o","w"," ","u","s","e","r","s">>
    /\ text_in # text_out.argument

\* ------------------------------------------------------------------------
\* Properties of the two confirmations in the pipeline
\* ------------------------------------------------------------------------
\* the latest pipeline request was translated into a statement the danger
\* policy flags
PipelineDangerous ==
    PipelineRan /\ nlq.translated /\ Verdicts[nlq.sql].is_dangerous

\* both prompts were answered in the affirmative
BothAffirmed == nlq.confirm = "yes" /\ call.made /\ SaysYes(call.answer)

\* the statement reached the engine only behind two affirmative answers; a
\* no at the pipeline's prompt ends the request before execute_query, a
\* decline at execute_query's prompt ends it with the cancelled result
C18_Gates ==
    PipelineDangerous =>
        /\ call.made /\ call.executed => BothAffirmed
        /\ nlq.confirm # "yes" => call = NoCall /\ ~nlq.ran
        /\ nlq.confirm = "yes" => call.made /\ call.asked /\ call.sql = nlq.sql
        /\ nlq.confirm = "yes" /\ ~SaysYes(call.answer) =>
               IsCancelled(call.result) /\ ~call.connected /\ ~call.executed

\* a request declined at either prompt leaves the database file as it was
C18_DeclineStep ==
    PipelineDangerous' /\ ~BothAffirmed' => db' = db

\* C18: in the pipeline a dangerous statement passes two successive
\* confirmations, the pipeline's own prompt and then the prompt inside
\* execute_query: it reaches the database only if both answers are
\* affirmative, and a decline at either ends the request with the database
\* unchanged.
C18_TwoGates == [](C18_Gates) /\ [][C18_DeclineStep]_vars

\* a request confirmed at the pipeline's prompt and declined at the second
C18_Witness ==
    /\ PipelineDangerous /\ nlq.confirm = "yes"
    /\ call.made /\ ~SaysYes(call.answer) /\ IsCancelled(call.result)

\* ------------------------------------------------------------------------
\* Properties of the history's growth
\* ------------------------------------------------------------------------
\* the turns a Translator call stores: the user turn and the assistant turn
\* when it came back with status 200, none when it failed
StoredTurns(r) ==
    IF r.kind = "response" /\ r.status_code = 200
    THEN <<Turn("user", r.user_message), Turn("assistant", r.content)>>
    ELSE <<>>

\* a natural_language_to_sql call on its own stores just those turns; a
\* process_natural_language_query request stores one system turn with the
\* schema before them, so that the history is one turn longer after a failed
\* call and three after a successful one; nothing is dropped
C19_Step ==
    LET added == SubSeq(conversation_history', Len(conversation_history) + 1,
                        Len(conversation_history'))
    IN  /\ op' = "natural_language_to_sql" /\ request'.sent =>
               /\ IsPrefix(conversation_history, conversation_history')
               /\ added = StoredTurns(request')
        /\ op' = "process_natural_language_query" /\ request'.sent =>
               /\ IsPrefix(conversation_history, conversation_history')
               /\ added # <<>>
               /\ Head(added).role = "system"
               /\ Tail(added) = StoredTurns(request')
               /\ Len(conversation_history') =
                      Len(conversation_history) + (IF TranslatorFailed' THEN 1 ELSE 3)
        /\ op' # "clear" => Len(conversation_history') >= Len(conversation_history)

\* C19: a Translator call that fails appends no user turn and no assistant
\* turn, a successful call appends exactly the user turn followed by the
\* assistant turn; every process_natural_language_query request has appended
\* one schema system turn before the call, so the history grows by one turn
\* per failed request and by three per successful one, and only clear
\* shortens it.
C19_HistoryGrowth == [][C19_Step]_vars

\* a pipeline request whose call got status 500, on a history that already
\* held turns: only the schema turn was added
C19_Witness ==
    /\ PipelineRan /\ TranslatorFailed /\ request.status_code = 500
    /\ Len(conversation_history) > 3
    /\ conversation_history = request.context
    /\ conversation_history[Len(conversation_history)].role = "system"

====
